---- MODULE Spec2Model ----
(***************************************************************************)
(* Near-Earth-Object database and searcher (src/starter/database.py,       *)
(* models.py, search.py).                                                  *)
(*                                                                         *)
(* Representation choices:                                                 *)
(*  - a date string "YYYY-MM-DD" is the triple <<Y, M, D>> of the integer  *)
(*    values of its three "-"-separated fields; a datetime.date object is  *)
(*    its proleptic Gregorian ordinal, so that split/int, date(),          *)
(*    timedelta arithmetic and strftime are separate conversions;          *)
(*  - CSV cells and filter literals are strings; float() is Float;         *)
(*  - a Python object is a record; field cls is its class and, for a       *)
(*    NearEarthObject, field inst is its identity (creation ordinal);      *)
(*  - a call's outcome is [kind, arg, val]: kind "ok" with the returned    *)
(*    list val, or the name of the raised exception with its argument arg. *)
(***************************************************************************)
EXTENDS Integers, Sequences, FiniteSets, TLC

VARIABLES
    file,               \* rows of the csv file handed to load_data
    phase,              \* "start" -> "loaded" -> "queried"
    NearEarthObjects,   \* NEODatabase.NearEarthObjects: date key -> list of NearEarthObject
    OrbitPaths,         \* NEODatabase.OrbitPaths
    query,              \* Query.Selectors built by build_query
    daterange,          \* between_search: the list of dates it iterates over
    candidates,         \* get_objects: outcome of the date search
    filtered,           \* get_objects: outcome of the filter loops (results before the slice)
    output              \* outcome of get_objects

vars == <<file, phase, NearEarthObjects, OrbitPaths, query, daterange, candidates, filtered, output>>

-----------------------------------------------------------------------------
(* Bounds and input sets *)

MaxRows == 2
MaxNumber == 2

Names == {"A", "B"}
Dates == {<<2015, 1, 30>>, <<2015, 1, 31>>, <<2015, 2, 1>>}

\* estimated_diameter_min_kilometers / is_potentially_hazardous_asteroid cells per name
Catalog ==
    [n \in Names |->
        IF n = "A" THEN [id |-> "1", diameter |-> "1", hazardous |-> "False"]
                   ELSE [id |-> "2", diameter |-> "3", hazardous |-> "True"]]

\* miss_distance_kilometers cell of the approaches recorded on a date
DistanceOn(d) == IF d = <<2015, 1, 30>> THEN "1" ELSE "9"

Rows ==
    { [ neo_reference_id |-> Catalog[n].id,
        name |-> n,
        estimated_diameter_min_kilometers |-> Catalog[n].diameter,
        is_potentially_hazardous_asteroid |-> Catalog[n].hazardous,
        miss_distance_kilometers |-> DistanceOn(d),
        close_approach_date |-> d,
        close_approach_date_full |-> d ] : n \in Names, d \in Dates }

Files == UNION { [1..k -> Rows] : k \in 0..MaxRows }

\* raw filter options "field:operator:value", each as the triple of its split(":")
RawFilters ==
    { <<"diameter", ">", "2">>, <<"diameter", ">=", "1">>, <<"diameter", "<", "2">>,
      <<"is_hazardous", "=", "True">>, <<"is_hazardous", "=", "False">>,
      <<"is_hazardous", "<", "True">>,
      <<"distance", ">=", "5">>, <<"miss_distance_kilometers", ">=", "5">> }

FilterLists ==
    {<<>>} \cup { <<f>> : f \in RawFilters }
           \cup { <<p[1], p[2]>> : p \in { pp \in RawFilters \X RawFilters : pp[1] # pp[2] } }

NoDate == <<>>

Params ==
    { [number |-> n, date |-> d, start_date |-> <<>>, end_date |-> <<>>,
       filter |-> fl, return_object |-> ro] :
         n \in 1..MaxNumber, d \in Dates, fl \in FilterLists, ro \in {"NEO", "Path"} }
    \cup
    { [number |-> n, date |-> NoDate, start_date |-> s, end_date |-> e,
       filter |-> fl, return_object |-> ro] :
         n \in 1..MaxNumber, s \in Dates, e \in Dates, fl \in FilterLists, ro \in {"NEO", "Path"} }

-----------------------------------------------------------------------------
(* Outcomes *)

Ok(v) == [kind |-> "ok", arg |-> <<>>, val |-> v]
Raise(k, a) == [kind |-> k, arg |-> a, val |-> <<>>]
NotRun == [kind |-> "none", arg |-> <<>>, val |-> <<>>]

\* float(s) on the numerals that occur in the inputs
Float(s) ==
    CASE s = "0" -> 0 [] s = "1" -> 1 [] s = "2" -> 2 [] s = "3" -> 3 [] s = "4" -> 4
      [] s = "5" -> 5 [] s = "6" -> 6 [] s = "7" -> 7 [] s = "8" -> 8 [] s = "9" -> 9

-----------------------------------------------------------------------------
(* models.py *)

OrbitPath(kw) ==
    [cls |-> "OrbitPath",
     neo_name |-> kw.name,
     miss_distance_kilometers |-> kw.distance,
     close_approach_date |-> kw.orbit_date]

NearEarthObject(kw, inst) ==
    [cls |-> "NearEarthObject",
     inst |-> inst,
     id |-> kw.id,
     name |-> kw.name,
     diameter_min_km |-> kw.diameter_min_km,
     is_potentially_hazardous_asteroid |-> kw.is_hazardous,
     orbits |-> kw.orbits]

update_orbits(neo, orbit) == [neo EXCEPT !.orbits = Append(@, orbit)]

-----------------------------------------------------------------------------
(* database.py *)

\* one iteration of the loop over csv rows; db = [neos, paths]
LoadRow(db, row, inst) ==
    LET orb_date == row.close_approach_date
        neoModel == [id |-> row.neo_reference_id,
                     name |-> row.name,
                     diameter_min_km |-> Float(row.estimated_diameter_min_kilometers),
                     is_hazardous |-> (row.is_potentially_hazardous_asteroid = "True"),
                     orbits |-> <<>>]
        orbitPathModel == [name |-> row.name,
                           distance |-> Float(row.miss_distance_kilometers),
                           orbit_date |-> row.close_approach_date_full]
        orbitPath == OrbitPath(orbitPathModel)
        neoObject == update_orbits(NearEarthObject(neoModel, inst), orbitPath)
    IN  [paths |-> Append(db.paths, orbitPath),
         neos  |-> IF orb_date \in DOMAIN db.neos
                   THEN [db.neos EXCEPT ![orb_date] = @ \o <<neoObject>>]
                   ELSE [k \in DOMAIN db.neos \cup {orb_date} |->
                            IF k = orb_date THEN <<neoObject>> ELSE db.neos[k]]]

RECURSIVE LoadRows(_, _, _)
LoadRows(db, rows, i) ==
    IF i > Len(rows) THEN db
    ELSE LoadRows(LoadRow(db, rows[i], Len(db.paths) + 1), rows, i + 1)

-----------------------------------------------------------------------------
(* datetime (standard library, as used by between_search) *)

IsLeap(y) == (y % 4 = 0) /\ ((y % 100 # 0) \/ (y % 400 = 0))

DaysInMonth(y, m) ==
    IF m = 2 THEN (IF IsLeap(y) THEN 29 ELSE 28)
    ELSE IF m \in {4, 6, 9, 11} THEN 30 ELSE 31

DaysBeforeYear(y) == (y - 1) * 365 + ((y - 1) \div 4) - ((y - 1) \div 100) + ((y - 1) \div 400)

RECURSIVE DaysBeforeMonth(_, _)
DaysBeforeMonth(y, m) == IF m <= 1 THEN 0 ELSE DaysBeforeMonth(y, m - 1) + DaysInMonth(y, m - 1)

\* datetime.date(y, m, d) raises ValueError unless the triple is a calendar date
ValidDate(y, m, d) == m \in 1..12 /\ d >= 1 /\ d <= DaysInMonth(y, m)

\* datetime.date(y, m, d).toordinal()
Ordinal(y, m, d) == DaysBeforeYear(y) + DaysBeforeMonth(y, m) + d

\* date.fromordinal(n).strftime("%Y-%m-%d"), as the triple of its fields
Strftime(n) ==
    LET y == CHOOSE yy \in (n \div 366)..((n \div 365) + 1) :
                 DaysBeforeYear(yy) < n /\ n <= DaysBeforeYear(yy + 1)
        r == n - DaysBeforeYear(y)
        m == CHOOSE mm \in 1..12 :
                 DaysBeforeMonth(y, mm) < r /\ r <= DaysBeforeMonth(y, mm) + DaysInMonth(y, mm)
    IN  <<y, m, r - DaysBeforeMonth(y, m)>>

-----------------------------------------------------------------------------
(* search.py: Query *)

\* Query.ReturnObjects
ReturnObjects(name) == IF name = "NEO" THEN "NearEarthObject" ELSE "OrbitPath"

\* Query.__init__ followed by Query.build_query
build_query(kw) ==
    [date_search |-> IF kw.date # NoDate
                     THEN [type |-> "equals", values |-> kw.date]
                     ELSE [type |-> "between", values |-> <<kw.start_date, kw.end_date>>],
     number |-> kw.number,
     filters |-> kw.filter,
     return_object |-> ReturnObjects(kw.return_object)]

-----------------------------------------------------------------------------
(* search.py: Filter *)

\* Filter.Options
Options(field) ==
    CASE field = "diameter" -> "diameter_min_km"
      [] field = "is_hazardous" -> "is_hazardous"
      [] field = "distance" -> "miss_distance_kilometers"

\* Filter.Operators: the symbols the table holds
OperatorSymbols == {">", "=", ">="}

\* variant of Operators: ">=" bound to operator.gt
OperatorsGeAsGt(symbol, a, b) ==
    CASE symbol = ">" -> a > b
      [] symbol = "=" -> a = b
      [] symbol = ">=" -> a > b

\* Filter.Operators[symbol](a, b)
Operators(symbol, a, b) ==
    CASE symbol = ">" -> a > b
      [] symbol = "=" -> a = b
      [] symbol = ">=" -> a >= b

IsNumeral(s) == s \in {"0", "1", "2", "3", "4", "5", "6", "7", "8", "9"}

\* Python compares bool operands as the integers 0 and 1
BoolInt(b) == IF b THEN 1 ELSE 0

Filter(field, object, operation, value) ==
    [field |-> field, object |-> object, operation |-> operation, value |-> value]

\* Filter.create_filter_options: a raw option "f:op:v" is the triple x of its split(":")
RECURSIVE create_filter_options(_)
create_filter_options(filter_options) ==
    IF filter_options = <<>> THEN [NEO |-> <<>>, ORB |-> <<>>]
    ELSE LET n == Len(filter_options)
             x == filter_options[n]
             rest == create_filter_options(SubSeq(filter_options, 1, n - 1))
         IN  [NEO |-> IF x[1] \in {"diameter", Options("is_hazardous")}
                      THEN Append(rest.NEO, Filter(x[1], "NearEarthObject", x[2], x[3]))
                      ELSE rest.NEO,
              ORB |-> IF x[1] = Options("distance")
                      THEN Append(rest.ORB, Filter(x[1], "OrbitPath", x[2], x[3]))
                      ELSE rest.ORB]

\* variant of Compare: a symbol missing from the table compares as False
CompareLenient(operation, lhs, rhs) ==
    IF operation \notin OperatorSymbols THEN Ok(FALSE)
    ELSE Ok(Operators(operation, lhs, rhs))

\* Filter.Operators[self.operation](lhs, rhs): the table lookup is evaluated first
Compare(operation, lhs, rhs) ==
    IF operation \notin OperatorSymbols THEN Raise("KeyError", operation)
    ELSE Ok(Operators(operation, lhs, rhs))

\* the diameter branch: filter(lambda neo: ..., results), evaluated element by element;
\* float(self.value) is evaluated after the table lookup
RECURSIVE ApplyDiameter(_, _, _)
ApplyDiameter(f, results, i) ==
    IF i > Len(results) THEN Ok(<<>>)
    ELSE LET c == IF f.operation \in OperatorSymbols /\ ~IsNumeral(f.value)
                  THEN Raise("ValueError", f.value)
                  ELSE Compare(f.operation, results[i].diameter_min_km, Float(f.value))
             rest == ApplyDiameter(f, results, i + 1)
         IN  IF c.kind # "ok" THEN c
             ELSE IF rest.kind # "ok" THEN rest
             ELSE Ok((IF c.val THEN <<results[i]>> ELSE <<>>) \o rest.val)

\* the is_hazardous branch
RECURSIVE ApplyHazardous(_, _, _)
ApplyHazardous(f, results, i) ==
    IF i > Len(results) THEN Ok(<<>>)
    ELSE LET is_hazardous == (f.value = "True")
             c == Compare(f.operation,
                          BoolInt(results[i].is_potentially_hazardous_asteroid),
                          BoolInt(is_hazardous))
             rest == ApplyHazardous(f, results, i + 1)
         IN  IF c.kind # "ok" THEN c
             ELSE IF rest.kind # "ok" THEN rest
             ELSE Ok((IF c.val THEN <<results[i]>> ELSE <<>>) \o rest.val)

RECURSIVE AllOrbits(_)
AllOrbits(results) ==
    IF results = <<>> THEN <<>> ELSE Head(results).orbits \o AllOrbits(Tail(results))

\* the distance branch: unique_orbits is never added to, and the Subject appended
\* is the variable neo left over from the loop that collected the orbits
RECURSIVE ApplyDistance(_, _, _, _)
ApplyDistance(f, all_orbits, neo, i) ==
    IF i > Len(all_orbits) THEN Ok(<<>>)
    ELSE LET c == IF f.operation \in OperatorSymbols /\ ~IsNumeral(f.value)
                  THEN Raise("ValueError", f.value)
                  ELSE Compare(f.operation, all_orbits[i].miss_distance_kilometers, Float(f.value))
             rest == ApplyDistance(f, all_orbits, neo, i + 1)
         IN  IF c.kind # "ok" THEN c
             ELSE IF rest.kind # "ok" THEN rest
             ELSE Ok((IF c.val THEN <<neo>> ELSE <<>>) \o rest.val)

ReturnsNone == [kind |-> "None", arg |-> <<>>, val |-> <<>>]

\* Filter.apply(results); res is the outcome carrying the list (or None) passed in
Apply(f, res) ==
    CASE f.field = "diameter" -> ApplyDiameter(f, res.val, 1)
      [] f.field = "is_hazardous" -> ApplyHazardous(f, res.val, 1)
      [] f.field = "distance" ->
            IF res.val = <<>> THEN Ok(<<>>)
            ELSE ApplyDistance(f, AllOrbits(res.val), res.val[Len(res.val)], 1)
      [] OTHER -> ReturnsNone

-----------------------------------------------------------------------------
(* search.py: NEOSearcher *)

\* variant of DictSetDefault: "neo[neo_name] = n" without the membership test
DictSetOverwrite(neo, n) ==
    IF \E i \in 1..Len(neo) : neo[i].name = n.name
    THEN [i \in 1..Len(neo) |-> IF neo[i].name = n.name THEN n ELSE neo[i]]
    ELSE Append(neo, n)

\* the dict neo as the list of its values in insertion order:
\* "if not neo_name in neo: neo[neo_name] = n"
DictSetDefault(neo, n) ==
    IF \E i \in 1..Len(neo) : neo[i].name = n.name THEN neo ELSE Append(neo, n)

RECURSIVE Collect(_, _, _)
Collect(neo, list, i) ==
    IF i > Len(list) THEN neo ELSE Collect(DictSetDefault(neo, list[i]), list, i + 1)

\* NEOSearcher.equals_search
equals_search(db, date_search) ==
    IF date_search \notin DOMAIN db THEN Raise("KeyError", date_search)
    ELSE Ok(Collect(<<>>, db[date_search], 1))

\* variant of DateRange: a reversed pair is iterated from the smaller bound
DateRangeAbs(start_date, end_date) ==
    LET lo == IF start_date < end_date THEN start_date ELSE end_date
        hi == IF start_date < end_date THEN end_date ELSE start_date
    IN  [x \in 1..(hi - lo) |-> lo + (x - 1)]

\* [start_date + timedelta(days=x) for x in range(0, (end_date - start_date).days)]
DateRange(start_date, end_date) ==
    [x \in 1..(IF end_date > start_date THEN end_date - start_date ELSE 0) |-> start_date + (x - 1)]

\* the loop of between_search over daterange, from position i with dict neo
RECURSIVE Visit(_, _, _, _)
Visit(db, keys, neo, i) ==
    IF i > Len(keys) THEN Ok(neo)
    ELSE IF keys[i] \notin DOMAIN db THEN Raise("KeyError", keys[i])
    ELSE Visit(db, keys, Collect(neo, db[keys[i]], 1), i + 1)

\* NEOSearcher.between_search: [daterange, out]
between_search(db, date_search) ==
    LET s == date_search[1]
        e == date_search[2]
    IN  IF ~ValidDate(s[1], s[2], s[3]) \/ ~ValidDate(e[1], e[2], e[3] + 1)
        THEN [daterange |-> <<>>, out |-> Raise("ValueError", "day is out of range for month")]
        ELSE LET start_date == Ordinal(s[1], s[2], s[3])
                 end_date == Ordinal(e[1], e[2], e[3] + 1)
                 dr == DateRange(start_date, end_date)
                 keys == [x \in DOMAIN dr |-> Strftime(dr[x])]
             IN  [daterange |-> keys, out |-> Visit(db, keys, <<>>, 1)]

\* "for filt in filters[...]: results = filt.apply(results)"
RECURSIVE ApplyAll(_, _, _)
ApplyAll(fs, res, i) ==
    IF i > Len(fs) \/ res.kind \notin {"ok", "None"} THEN res
    ELSE ApplyAll(fs, Apply(fs[i], res), i + 1)

\* variant of Slice: results[:number + 1]
SliceOffByOne(results, number) ==
    SubSeq(results, 1, IF number + 1 < Len(results) THEN number + 1 ELSE Len(results))

\* results[:number], number > 0
Slice(results, number) ==
    SubSeq(results, 1, IF number < Len(results) THEN number ELSE Len(results))

\* NEOSearcher.get_objects: [daterange, candidates, filtered, output]
GetObjects(db, q) ==
    LET filters == create_filter_options(q.filters)
        search == IF q.date_search.type = "equals"
                  THEN [daterange |-> <<>>, out |-> equals_search(db, q.date_search.values)]
                  ELSE between_search(db, q.date_search.values)
        results == IF search.out.kind # "ok" THEN NotRun
                   ELSE ApplyAll(filters.ORB, ApplyAll(filters.NEO, search.out, 1), 1)
    IN  [daterange |-> search.daterange,
         candidates |-> search.out,
         filtered |-> results,
         output |-> CASE search.out.kind # "ok" -> search.out
                      [] results.kind = "None" ->
                            Raise("TypeError", "'NoneType' object is not subscriptable")
                      [] results.kind = "ok" -> Ok(Slice(results.val, q.number))
                      [] OTHER -> results]

EmptyDict == [k \in {} |-> <<>>]

Init ==
    /\ file \in Files
    /\ phase = "start"
    /\ NearEarthObjects = EmptyDict
    /\ OrbitPaths = <<>>
    /\ query = <<>>
    /\ daterange = <<>>
    /\ candidates = NotRun
    /\ filtered = NotRun
    /\ output = NotRun

load_data ==
    /\ phase = "start"
    /\ LET db == LoadRows([neos |-> NearEarthObjects, paths |-> OrbitPaths], file, 1)
       IN  /\ NearEarthObjects' = db.neos
           /\ OrbitPaths' = db.paths
    /\ phase' = "loaded"
    /\ UNCHANGED <<file, query, daterange, candidates, filtered, output>>

\* one run of the program's search: the query is built from the parameters
\* (Query.build_query) and executed (NEOSearcher.get_objects)
get_objects ==
    /\ phase = "loaded"
    /\ \E kw \in Params :
         \E q \in {build_query(kw)} : \E r \in {GetObjects(NearEarthObjects, q)} :
           /\ query' = q
           /\ daterange' = r.daterange
           /\ candidates' = r.candidates
           /\ filtered' = r.filtered
           /\ output' = r.output
    /\ phase' = "queried"
    /\ UNCHANGED <<file, NearEarthObjects, OrbitPaths>>

Next ==
    \/ load_data
    \/ get_objects

-----------------------------------------------------------------------------
(* Vocabulary of the properties *)

Called == phase = "queried"
IsEquals == Called /\ query.date_search.type = "equals"
IsBetween == Called /\ query.date_search.type = "between"

\* calendar order on date strings
DateLT(a, b) ==
    \/ a[1] < b[1]
    \/ a[1] = b[1] /\ a[2] < b[2]
    \/ a[1] = b[1] /\ a[2] = b[2] /\ a[3] < b[3]

DateLE(a, b) == a = b \/ DateLT(a, b)

NextDay(d) ==
    IF d[3] < DaysInMonth(d[1], d[2]) THEN <<d[1], d[2], d[3] + 1>>
    ELSE IF d[2] < 12 THEN <<d[1], d[2] + 1, 1>>
    ELSE <<d[1] + 1, 1, 1>>

\* the dates a..b, both included, in ascending order
RECURSIVE DaysFromTo(_, _)
DaysFromTo(a, b) == IF DateLT(b, a) THEN <<>> ELSE <<a>> \o DaysFromTo(NextDay(a), b)

\* the Subjects recorded under a date key, none when the key is absent
Recorded(d) == IF d \in DOMAIN NearEarthObjects THEN NearEarthObjects[d] ELSE <<>>

RECURSIVE RecordedOn(_)
RecordedOn(days) == IF days = <<>> THEN <<>> ELSE Recorded(Head(days)) \o RecordedOn(Tail(days))

\* what the date search of the current query reads, in date-ascending then load-append order
Source ==
    IF query.date_search.type = "equals" THEN Recorded(query.date_search.values)
    ELSE RecordedOn(DaysFromTo(query.date_search.values[1], query.date_search.values[2]))

FirstIndex(list, name) == CHOOSE i \in 1..Len(list) :
    list[i].name = name /\ \A j \in 1..(i - 1) : list[j].name # name

NamesOf(list) == { list[i].name : i \in 1..Len(list) }

Holds(op, a, b) == (op = ">" /\ a > b) \/ (op = "=" /\ a = b) \/ (op = ">=" /\ a >= b)

Supported(op) == op \in {">", "=", ">="}

SubjectField(x) == x[1] \in {"diameter", "is_hazardous"}

\* a Subject satisfies a raw subject filter with a supported operator
Satisfies(neo, x) ==
    IF x[1] = "diameter" THEN Holds(x[2], neo.diameter_min_km, Float(x[3]))
    ELSE Holds(x[2], BoolInt(neo.is_potentially_hazardous_asteroid), BoolInt(x[3] = "True"))

AllInstances ==
    UNION { { NearEarthObjects[d][i] : i \in 1..Len(NearEarthObjects[d]) } : d \in DOMAIN NearEarthObjects }

-----------------------------------------------------------------------------
(* Claims *)

\* C1: after load_data, every name of the file maps to exactly one NearEarthObject
\* instance, whose orbits list holds one event per row that referenced the name.
C1_OneInstancePerName ==
    phase # "start" =>
        \A n \in Names :
            LET rows == { i \in 1..Len(file) : file[i].name = n }
                insts == { neo \in AllInstances : neo.name = n }
            IN  rows # {} =>
                  /\ Cardinality(insts) = 1
                  /\ \A neo \in insts : Len(neo.orbits) = Cardinality(rows)

\* C2: a date key without recorded Subjects is never an error: an exact-date search
\* on it returns the empty list, and a range search that visits it goes on.
C2_AbsentDateIsEmpty ==
    /\ (IsEquals /\ query.date_search.values \notin DOMAIN NearEarthObjects)
          => candidates = Ok(<<>>)
    /\ (IsBetween /\ \E i \in 1..Len(daterange) : daterange[i] \notin DOMAIN NearEarthObjects)
          => candidates.kind = "ok"

\* C3: for start <= end, between_search visits exactly the dates start..end, both
\* included, in ascending order, also across a month end, and returns the Subjects
\* recorded on them.
C3_RangeInclusive ==
    (IsBetween /\ DateLE(query.date_search.values[1], query.date_search.values[2])) =>
        LET days == DaysFromTo(query.date_search.values[1], query.date_search.values[2])
        IN  /\ daterange = days
            /\ (\A i \in 1..Len(days) : days[i] \in DOMAIN NearEarthObjects)
                  => (candidates.kind = "ok" /\ NamesOf(candidates.val) = NamesOf(Source))

\* C4: a query with the single filter distance:op:V returns exactly the candidates
\* owning an event whose miss distance satisfies op against V, each once.
C4_DistanceFilter ==
    (/\ Called
     /\ candidates.kind = "ok"
     /\ Len(query.filters) = 1
     /\ query.filters[1][1] = "distance"
     /\ Supported(query.filters[1][2])) =>
        LET Qualifies(neo) ==
                \E i \in 1..Len(neo.orbits) :
                    Holds(query.filters[1][2], neo.orbits[i].miss_distance_kilometers,
                          Float(query.filters[1][3]))
        IN  filtered = Ok(SelectSeq(candidates.val, Qualifies))

\* C5: get_objects emits records of the requested shape: OrbitPath records for
\* 'Path', NearEarthObject records for 'NEO'.
C5_ReturnShape ==
    (Called /\ output.kind = "ok") =>
        \A i \in 1..Len(output.val) : output.val[i].cls = query.return_object

C7_DedupFirstSeen ==
    (Called /\ candidates.kind = "ok") =>
        LET got == candidates.val
        IN  /\ \A i, j \in 1..Len(got) : i # j => got[i].name # got[j].name
            /\ NamesOf(got) = NamesOf(Source)
            /\ \A i \in 1..Len(got) : got[i] = Source[FirstIndex(Source, got[i].name)]
            /\ \A i, j \in 1..Len(got) :
                  i < j => FirstIndex(Source, got[i].name) < FirstIndex(Source, got[j].name)

C7_Witness ==
    /\ IsBetween
    /\ candidates.kind = "ok"
    /\ Len(daterange) >= 2
    /\ \E n \in Names :
          /\ n \in NamesOf(Recorded(daterange[1]))
          /\ n \in NamesOf(Recorded(daterange[2]))
          /\ n \in NamesOf(candidates.val)

\* a raw subject filter whose operator symbol is outside the table
BadSubjectFilter(x) == SubjectField(x) /\ ~Supported(x[2])

DiameterAndHazard ==
    /\ Called
    /\ candidates.kind = "ok"
    /\ Len(query.filters) = 2
    /\ { query.filters[1][1], query.filters[2][1] } = {"diameter", "is_hazardous"}
    /\ Supported(query.filters[1][2])
    /\ Supported(query.filters[2][2])

\* C9: a diameter filter and an is_hazardous filter keep exactly the candidates
\* satisfying both, in candidate order, and the outcome of get_objects is the same
\* with the two filters listed in the other order.
C9_SubjectFiltersIntersect ==
    DiameterAndHazard =>
        LET Both(neo) == Satisfies(neo, query.filters[1]) /\ Satisfies(neo, query.filters[2])
            swapped == [query EXCEPT !.filters = <<query.filters[2], query.filters[1]>>]
        IN  /\ filtered = Ok(SelectSeq(candidates.val, Both))
            /\ GetObjects(NearEarthObjects, swapped).output = output

C9_Witness ==
    /\ DiameterAndHazard
    /\ Len(candidates.val) = 2
    /\ filtered.kind = "ok"
    /\ Len(filtered.val) = 1
    /\ \E i \in 1..2 : \E neo \in {candidates.val[i]} :
          neo # filtered.val[1] /\ (Satisfies(neo, query.filters[1]) \/ Satisfies(neo, query.filters[2]))

\* C10: get_objects returns exactly the first min(N, k) elements of the k-element
\* filtered list, in order; the output is never longer than N.
C10_Truncation ==
    (Called /\ output.kind = "ok") =>
        /\ filtered.kind = "ok"
        /\ Len(output.val) = (IF query.number < Len(filtered.val) THEN query.number
                                                                   ELSE Len(filtered.val))
        /\ Len(output.val) <= query.number
        /\ \A i \in 1..Len(output.val) : output.val[i] = filtered.val[i]

C10_Witness ==
    /\ Called
    /\ output.kind = "ok"
    /\ filtered.kind = "ok"
    /\ Len(filtered.val) > query.number
    /\ Len(output.val) = query.number

Spec == Init /\ [][Next]_vars
====
